---- MODULE Spec2Model ----
(***************************************************************************)
(* jsonc-weaver: weave(original, modified) parses a JSONC document into a  *)
(* mutable concrete syntax tree, reconciles the tree with a plain value    *)
(* (updateObject / updateArray / updatePropertyValue) and renders the tree *)
(* back to text.                                                           *)
(*                                                                         *)
(* Plain values are records [name, kind, val, kids]; `name` is the key     *)
(* under which the value sits in its parent object ("" elsewhere), `kids`  *)
(* the entries of an object in iteration order or the elements of an       *)
(* array.  Document text is the same record plus `tv`, the trivia          *)
(* (comments, whitespace) that belongs to the slot (0: none), and `ml`,    *)
(* whether an array is rendered on several lines.  A tree node is text     *)
(* plus `id`, the handle the parser gave the node.                         *)
(***************************************************************************)
EXTENDS Integers, Sequences, FiniteSets, TLC

\* ------------------------------------------------------------------ bounds
MaxLen == 3        \* longest array of the flat-array universe
NumVals == 3       \* distinct numbers 1..NumVals
MaxProps == 2      \* most properties of an object of the object universe
MaxInner == 1      \* longest container nested in another container
MaxOuter == 2      \* longest root container of the nested universe
MaxCalls == 2      \* calls of weave on the same file
MaxElems == 2      \* longest array held by a property of the mixed universe
MaxDeep == 1       \* longest root container of the deep universe
MaxGap == 3        \* most tokens between an element and the node inserted behind it

\* ------------------------------------------------------------ plain values
Prim(k, v) == [name |-> "", kind |-> k, val |-> v, kids |-> <<>>]
Num(v) == Prim("number", v)
Str(v) == Prim("string", v)
Null == Prim("null", 0)
Arr(es) == [name |-> "", kind |-> "array", val |-> 0, kids |-> es]
Obj(ps) == [name |-> "", kind |-> "object", val |-> 0, kids |-> ps]
Named(k, v) == [v EXCEPT !.name = k]

IsContainerKind(k) == k \in {"object", "array"}

\* names every plain object inherits from Object.prototype; the one the
\* model draws keys from
ObjectPrototypeKeys == {"constructor"}

Names(kids) == {kids[i].name : i \in DOMAIN kids}

\* JavaScript `key in newObj`: own properties and the prototype chain
KeyIn(key, newObj) == key \in Names(newObj.kids) \/ key \in ObjectPrototypeKeys

\* ------------------------------------------------------------------- trees
NewId == <<0>>     \* handle of a node built during the call (no path is <<0>>)
NoTrivia == <<0>>  \* trivia of a slot built during the call: none
NoText == [name |-> "", kind |-> "none", val |-> 0, kids |-> <<>>, tv |-> NoTrivia, ml |-> FALSE]
NoRoot == [id |-> NewId, name |-> "", kind |-> "none", val |-> 0, kids |-> <<>>,
           tv |-> NoTrivia, ml |-> FALSE]

\* the node the library builds for a plain value (insert, append, setValue)
RECURSIVE Build(_)
Build(v) ==
  [id |-> NewId, tv |-> NoTrivia, name |-> v.name, kind |-> v.kind, val |-> v.val,
   kids |-> [i \in DOMAIN v.kids |-> Build(v.kids[i])], ml |-> FALSE]

\* parse: every node of the text gets its own handle, its path from the root
RECURSIVE ParseAt(_, _)
ParseAt(t, path) ==
  [id |-> path, tv |-> t.tv, name |-> t.name, kind |-> t.kind, val |-> t.val,
   kids |-> [i \in DOMAIN t.kids |-> ParseAt(t.kids[i], Append(path, i))],
   ml |-> t.ml]
parse(t) == ParseAt(t, <<>>)

\* root.toString(): the text of the tree; handles are not part of the text
RECURSIVE toString(_)
toString(n) ==
  [tv |-> n.tv, name |-> n.name, kind |-> n.kind, val |-> n.val,
   kids |-> [i \in DOMAIN n.kids |-> toString(n.kids[i])], ml |-> n.ml]

\* the plain value a node (or a text) decodes to
RECURSIVE Decode(_)
Decode(n) ==
  [name |-> n.name, kind |-> n.kind, val |-> n.val,
   kids |-> [i \in DOMAIN n.kids |-> Decode(n.kids[i])]]

\* equality of plain values: objects by key, arrays by position
RECURSIVE ValEq(_, _)
ValEq(v, w) ==
  /\ v.kind = w.kind
  /\ v.val = w.val
  /\ Len(v.kids) = Len(w.kids)
  /\ IF v.kind = "object"
     THEN /\ Names(v.kids) = Names(w.kids)
          /\ \A i \in DOMAIN v.kids : \A j \in DOMAIN w.kids :
               v.kids[i].name = w.kids[j].name => ValEq(v.kids[i], w.kids[j])
     ELSE \A i \in DOMAIN v.kids : ValEq(v.kids[i], w.kids[i])

\* ---------------------------------------------------- library primitives
\* the nodes of a tree that carry the handle id
RECURSIVE Find(_, _)
Find(n, id) ==
  IF n.id = id THEN {n} ELSE UNION {Find(n.kids[i], id) : i \in DOMAIN n.kids}

RemoveAt(s, i) == SubSeq(s, 1, i - 1) \o SubSeq(s, i + 1, Len(s))

\* container.insert(index, value): index counts from 0
InsertAt(s, index, x) ==
  IF index >= Len(s) THEN Append(s, x)
  ELSE SubSeq(s, 1, index) \o <<x>> \o SubSeq(s, index + 1, Len(s))

\* position (from 1) of the node with handle id among kids, 0 when removed
PosOf(kids, id) ==
  IF \E i \in DOMAIN kids : kids[i].id = id
  THEN CHOOSE i \in DOMAIN kids : kids[i].id = id
  ELSE 0

\* prop.propertyIndex(): counts from 0, -1 for a property no longer in the tree
propertyIndex(props, id) == PosOf(props, id) - 1

\* prop.setValue(value): the property keeps its slot, the value is rebuilt
setValue(prop, value) ==
  [Build(value) EXCEPT !.id = prop.id, !.tv = prop.tv, !.name = prop.name]

\* array.ensureMultiline()
ensureMultiline(node) == [node EXCEPT !.ml = TRUE]

\* One edit or decision of a call, as the log keeps it:
\*   op     what was done: updateObject, updateArray (a call); setValue,
\*          ensureMultiline, insert, remove (a property); append,
\*          insertElement, removePreviousWhitespaces, removeNode (an element);
\*          match, schedule, skip (what the array loop decided for a value)
\*   at     handle of the object or array being reconciled
\*   id     handle of the node acted on
\*   idx    index the operation used, counted from 0
\*   n      number of properties or elements of `at` before the operation
\*   flag   insert, remove: part of a rename or of a replacement;
\*          match: found by look-ahead; setValue: the value was already there
\*   value  updateObject, updateArray: the value being woven in;
\*          remove: what the value being woven in has under the removed
\*          property's key or at the removed element's index (Absent: nothing)
Absent == Prim("absent", 0)
Event(op, at, id, idx, n, flag, value) ==
  [op |-> op, at |-> at, id |-> id, idx |-> idx, n |-> n, flag |-> flag, value |-> value]
Ev(op, at, id, idx, n, flag) == Event(op, at, id, idx, n, flag, Absent)
EvCall(op, at, value) == Event(op, at, at, 0, 0, FALSE, value)
EvRemove(op, at, id, idx, n, flag, value) == Event(op, at, id, idx, n, flag, value)

\* newObj[key], Absent when newObj has no such entry
Entry(newObj, key) ==
  IF key \in Names(newObj.kids)
  THEN newObj.kids[CHOOSE i \in DOMAIN newObj.kids : newObj.kids[i].name = key]
  ELSE Absent

\* value[i] for i from 1, Absent beyond the length
Element(value, i) == IF i <= Len(value.kids) THEN value.kids[i] ELSE Absent

\* ------------------------------------------------------------ reconcilers
\* shouldPreserveComments comparing a number with the literal's text, without
\* Number(): never equal
shouldPreserveComments_rawNumber(node, newValue) ==
  IF newValue.kind = "string" /\ node.kind = "string" THEN newValue.val = node.val
  ELSE IF newValue.kind = "number" /\ node.kind = "number" THEN FALSE
  ELSE IF newValue.kind = "boolean" /\ node.kind = "boolean" THEN newValue.val = node.val
  ELSE IF newValue.kind = "null" /\ node.kind = "null" THEN TRUE
  ELSE IF newValue.kind = "array" /\ node.kind = "array" THEN TRUE
  ELSE IF newValue.kind \in {"object", "array", "null"} /\ node.kind = "object" THEN TRUE
  ELSE FALSE

shouldPreserveComments(node, newValue) ==
  IF newValue.kind = "string" /\ node.kind = "string" THEN newValue.val = node.val
  ELSE IF newValue.kind = "number" /\ node.kind = "number" THEN newValue.val = node.val
  ELSE IF newValue.kind = "boolean" /\ node.kind = "boolean" THEN newValue.val = node.val
  ELSE IF newValue.kind = "null" /\ node.kind = "null" THEN TRUE
  ELSE IF newValue.kind = "array" /\ node.kind = "array" THEN TRUE
  \* typeof newValue === "object" holds of objects, arrays and null
  ELSE IF newValue.kind \in {"object", "array", "null"} /\ node.kind = "object" THEN TRUE
  ELSE FALSE

RECURSIVE updateObject(_, _)
RECURSIVE objectPass(_, _, _, _)
RECURSIVE updatePropertyValue(_, _)
RECURSIVE updateArray(_, _)
RECURSIVE arrayPass(_, _, _, _)
RECURSIVE updateNested(_, _)

\* what a reconciler hands back: the node as it now is and the edits made
Updated(r) == [ok |-> TRUE, node |-> r.node, log |-> r.log]
NotUpdated(element) == [ok |-> FALSE, node |-> element, log |-> <<>>]

updateNested(element, value) ==
  IF value.kind = "object" /\ element.kind = "object"
  THEN Updated(updateObject(element, value))
  ELSE IF value.kind = "array" /\ element.kind = "array"
  THEN Updated(updateArray(element, value))
  ELSE NotUpdated(element)

\* Replaced without the ensureMultiline call
Replaced_compact(prop, value, same) ==
  [node |-> setValue(prop, value),
   log |-> <<Ev("setValue", prop.id, prop.id, 0, 0, same)>>]

\* prop.setValue(value) and, for a non-empty array, ensureMultiline
Replaced(prop, value, same) ==
  IF value.kind = "array" /\ Len(value.kids) > 0
  THEN [node |-> ensureMultiline(setValue(prop, value)),
        log |-> <<Ev("setValue", prop.id, prop.id, 0, 0, same),
                  Ev("ensureMultiline", prop.id, prop.id, 0, 0, FALSE)>>]
  ELSE [node |-> setValue(prop, value),
        log |-> <<Ev("setValue", prop.id, prop.id, 0, 0, same)>>]

updatePropertyValue(prop, value) ==
  IF value.kind = "array"
  THEN IF prop.kind = "array"
       THEN updateArray(prop, value)
       ELSE \* not an array currently: replace with the array, multiline
            Replaced(prop, value, FALSE)
  ELSE IF value.kind = "object"
  THEN IF prop.kind = "object"
       THEN updateObject(prop, value)
       ELSE Replaced(prop, value, FALSE)
  ELSE Replaced(prop, value, prop.kind = value.kind /\ prop.val = value.val)

\* RenamedFrom without the test of the position: any property to be removed
RenamedFrom_anywhere(existingProps, st, key) ==
  LET cand == {p \in DOMAIN existingProps :
                 /\ existingProps[p].name \in st.propsToRemove
                 /\ existingProps[p].name \notin st.processedKeys \cup {key}}
  IN IF cand = {} THEN 0 ELSE CHOOSE p \in cand : \A q \in cand : p <= q

\* the first snapshot property that is to be removed, not yet processed and
\* now sits at insertIndex (0 when there is none)
RenamedFrom(existingProps, st, key) ==
  LET cand == {p \in DOMAIN existingProps :
                 /\ existingProps[p].name \in st.propsToRemove
                 /\ existingProps[p].name \notin st.processedKeys \cup {key}
                 /\ propertyIndex(st.props, existingProps[p].id) = st.insertIndex}
  IN IF cand = {} THEN 0 ELSE CHOOSE p \in cand : \A q \in cand : p <= q

\* NewProp without the ensureMultiline call
NewProp_compact(value) == Build(value)

\* a property built by targetObj.insert, its array value forced multiline
NewProp(value) ==
  IF value.kind = "array" /\ Len(value.kids) > 0
  THEN ensureMultiline(Build(value)) ELSE Build(value)

NewPropLog(objId, index, value) ==
  IF value.kind = "array" /\ Len(value.kids) > 0
  THEN <<Ev("ensureMultiline", objId, NewId, index, 0, FALSE)>> ELSE <<>>

\* ExistingStep with insertIndex one too far
ExistingStep_offByOne(st, key, pos, r) ==
  [st EXCEPT !.props = [@ EXCEPT ![pos] = r.node],
             !.processedKeys = @ \cup {key},
             !.insertIndex = propertyIndex(st.props, st.props[pos].id) + 2,
             !.log = @ \o r.log]

\* property exists: its value is updated in place (r: what
\* updatePropertyValue handed back), insertIndex moves behind it
ExistingStep(st, key, pos, r) ==
  [st EXCEPT !.props = [@ EXCEPT ![pos] = r.node],
             !.processedKeys = @ \cup {key},
             !.insertIndex = propertyIndex(st.props, st.props[pos].id) + 1,
             !.log = @ \o r.log]

\* RenameStep that leaves the old key in propsToRemove
RenameStep_keepFlag(st, newObj, value, old) ==
  LET oldIndex == propertyIndex(st.props, old.id)
  IN [st EXCEPT !.props = InsertAt(RemoveAt(st.props, oldIndex + 1), oldIndex, NewProp(value)),
                !.processedKeys = @ \cup {value.name, old.name},
                !.insertIndex = oldIndex + 1,
                !.log = @ \o <<EvRemove("remove", st.id, old.id, oldIndex, Len(st.props), TRUE,
                                        Entry(newObj, old.name)),
                               Ev("insert", st.id, NewId, oldIndex, Len(st.props) - 1, TRUE)>>
                          \o NewPropLog(st.id, oldIndex, value)]

\* rename: remove the old property and insert the new one at its index
RenameStep(st, newObj, value, old) ==
  LET oldIndex == propertyIndex(st.props, old.id)
  IN [st EXCEPT !.props = InsertAt(RemoveAt(st.props, oldIndex + 1), oldIndex, NewProp(value)),
                !.processedKeys = @ \cup {value.name, old.name},
                !.propsToRemove = @ \ {old.name},
                !.insertIndex = oldIndex + 1,
                !.log = @ \o <<EvRemove("remove", st.id, old.id, oldIndex, Len(st.props), TRUE,
                                        Entry(newObj, old.name)),
                               Ev("insert", st.id, NewId, oldIndex, Len(st.props) - 1, TRUE)>>
                          \o NewPropLog(st.id, oldIndex, value)]

\* new property: insert at the current position
InsertStep(st, value) ==
  [st EXCEPT !.props = InsertAt(st.props, st.insertIndex, NewProp(value)),
             !.processedKeys = @ \cup {value.name},
             !.insertIndex = @ + 1,
             !.log = @ \o <<Ev("insert", st.id, NewId, st.insertIndex, Len(st.props), FALSE)>>
                       \o NewPropLog(st.id, st.insertIndex, value)]

\* one round of the loop over Object.entries(newObj)
objectStep(existingProps, newObj, value, st) ==
  LET key == value.name
      hit == {p \in DOMAIN existingProps : existingProps[p].name = key}
      from == RenamedFrom(existingProps, st, key)
  IN IF hit # {}
     THEN ExistingStep(st, key, PosOf(st.props, existingProps[CHOOSE p \in hit : TRUE].id),
            updatePropertyValue(
              st.props[PosOf(st.props, existingProps[CHOOSE p \in hit : TRUE].id)], value))
     ELSE IF from # 0
     THEN RenameStep(st, newObj, value, existingProps[from])
     ELSE InsertStep(st, value)

\* the loop over Object.entries(newObj), from entry i on
objectPass(existingProps, newObj, i, st) ==
  IF i > Len(newObj.kids) THEN st
  ELSE objectPass(existingProps, newObj, i + 1,
                  objectStep(existingProps, newObj, newObj.kids[i], st))

\* prop.remove() in the final loop
RemoveStep(st, newObj, prop) ==
  [st EXCEPT !.props = IF PosOf(@, prop.id) > 0 THEN RemoveAt(@, PosOf(@, prop.id)) ELSE @,
             !.log = Append(@, EvRemove("remove", st.id, prop.id, propertyIndex(st.props, prop.id),
                                        Len(st.props), FALSE, Entry(newObj, prop.name)))]

\* the final loop of updateObject: remove what is still in propsToRemove
RECURSIVE removeProps(_, _, _, _)
removeProps(existingProps, newObj, p, st) ==
  IF p > Len(existingProps) THEN st
  ELSE removeProps(existingProps, newObj, p + 1,
         IF existingProps[p].name \in st.propsToRemove
         THEN RemoveStep(st, newObj, existingProps[p]) ELSE st)

\* the object with the properties the loops left
Reconciled(node, st) == [node |-> [node EXCEPT !.kids = st.kids], log |-> st.log]

ObjectStart(targetObj, newObj) ==
  [id |-> targetObj.id,
   props |-> targetObj.kids,
   processedKeys |-> {},
   propsToRemove |-> {targetObj.kids[p].name : p \in
                        {q \in DOMAIN targetObj.kids : ~KeyIn(targetObj.kids[q].name, newObj)}},
   insertIndex |-> 0,
   log |-> <<EvCall("updateObject", targetObj.id, newObj)>>]

ObjectEnd(st) == [kids |-> st.props, log |-> st.log]

updateObject(targetObj, newObj) ==
  Reconciled(targetObj,
    ObjectEnd(removeProps(targetObj.kids, newObj, 1,
                objectPass(targetObj.kids, newObj, 1, ObjectStart(targetObj, newObj)))))

\* removeNode(node): the element leaves its array (every node kind of the
\* model is one the function handles)
removeNode(elems, node) ==
  IF PosOf(elems, node.id) = 0 THEN elems ELSE RemoveAt(elems, PosOf(elems, node.id))

\* the node that existingElements[i] now is
Current(st, existingElements, i) == st.elems[PosOf(st.elems, existingElements[i].id)]

\* LookAhead without the test of matched[j]
LookAhead_rematch(existingElements, st, i, v) ==
  LET last == IF i + 2 < Len(existingElements) THEN i + 2 ELSE Len(existingElements)
      cand == {j \in (i + 1)..last : shouldPreserveComments(Current(st, existingElements, j), v)}
  IN IF cand = {} THEN 0 ELSE CHOOSE j \in cand : \A k \in cand : j <= k

\* the first position j in i+1..min(i+2, length) whose element is unmatched
\* and equivalent to the value (0 when there is none); positions from 1
LookAhead(existingElements, st, i, v) ==
  LET last == IF i + 2 < Len(existingElements) THEN i + 2 ELSE Len(existingElements)
      cand == {j \in (i + 1)..last :
                 /\ ~st.matched[j]
                 /\ shouldPreserveComments(Current(st, existingElements, j), v)}
  IN IF cand = {} THEN 0 ELSE CHOOSE j \in cand : \A k \in cand : j <= k

\* existingArray.append(value[i])
AppendStep(st, v, i) ==
  [st EXCEPT !.elems = Append(@, Build(v)),
             !.log = Append(@, Ev("append", st.id, NewId, i - 1, Len(st.elems), FALSE))]

\* the element at position j is matched to value i (r: what updateNested
\* handed back for it)
MatchStep(st, i, j, r) ==
  [st EXCEPT !.elems = [@ EXCEPT ![PosOf(st.elems, r.node.id)] = r.node],
             !.matched = [@ EXCEPT ![j] = TRUE],
             !.log = IF i = j
                     THEN (@ \o r.log) \o <<Ev("match", st.id, r.node.id, i - 1, j - 1, FALSE)>>
                     ELSE (@ \o <<Ev("match", st.id, r.node.id, i - 1, j - 1, TRUE)>>) \o r.log]

\* no match found: replace the current position, unless it is matched
NoMatchStep(st, elem, i) ==
  IF ~st.matched[i]
  THEN [st EXCEPT !.toReplace = Append(@, i - 1),
                  !.matched = [@ EXCEPT ![i] = TRUE],
                  !.log = Append(@, Ev("schedule", st.id, elem.id, i - 1, i - 1, FALSE))]
  ELSE [st EXCEPT !.log = Append(@, Ev("skip", st.id, elem.id, i - 1, i - 1, FALSE))]

\* AheadStep without the look-ahead: what does not match in place is replaced
AheadStep_noLookAhead(existingElements, st, v, i, j) ==
  NoMatchStep(st, existingElements[i], i)

\* look ahead for a match (at most 2 positions)
AheadStep(existingElements, st, v, i, j) ==
  IF j # 0
  THEN MatchStep(st, i, j, updateNested(Current(st, existingElements, j), v))
  ELSE NoMatchStep(st, existingElements[i], i)

\* InPlaceStep without the shouldPreserveComments test at the current position
InPlaceStep_nestedOnly(existingElements, st, v, i, nested) ==
  IF ~st.matched[i] /\ nested.ok
  THEN MatchStep(st, i, i, nested)
  ELSE AheadStep(existingElements, st, v, i, LookAhead(existingElements, st, i, v))

\* nested: what updateNested handed back for the element at i, NotUpdated
\* when the element is matched already and updateNested is not called
InPlaceStep(existingElements, st, v, i, nested) ==
  IF ~st.matched[i] /\ (nested.ok \/ shouldPreserveComments(nested.node, v))
  THEN MatchStep(st, i, i, nested)
  ELSE AheadStep(existingElements, st, v, i, LookAhead(existingElements, st, i, v))

\* one round of the loop over the new values (i counts from 1)
arrayStep(existingElements, v, i, st) ==
  IF i > Len(existingElements)
  THEN AppendStep(st, v, i)
  ELSE InPlaceStep(existingElements, st, v, i,
         IF st.matched[i] THEN NotUpdated(Current(st, existingElements, i))
         ELSE updateNested(Current(st, existingElements, i), v))

\* the loop over the new values, from value i on
arrayPass(existingElements, value, i, st) ==
  IF i > Len(value.kids) THEN st
  ELSE arrayPass(existingElements, value, i + 1,
                 arrayStep(existingElements, value.kids[i], i, st))

\* insert value[idx] behind the old element, then remove the old element
ReplaceStep(existingElements, value, idx, st) ==
  [st EXCEPT !.elems = removeNode(InsertAt(@, idx + 1, Build(value.kids[idx + 1])),
                                  existingElements[idx + 1]),
             !.log = ((@ \o <<Ev("insertElement", st.id, NewId, idx + 1, Len(st.elems), TRUE)>>)
                        \o (IF Len(existingElements) = 1
                            THEN <<Ev("removePreviousWhitespaces", st.id, NewId,
                                      idx + 1, Len(st.elems) + 1, FALSE)>>
                            ELSE <<>>))
                        \o <<EvRemove("removeNode", st.id, existingElements[idx + 1].id,
                                      PosOf(st.elems, existingElements[idx + 1].id) - 1,
                                      Len(st.elems) + 1, TRUE, Element(value, idx + 1))>>]

\* apply the replacements toReplace[k], .., toReplace[1] in this order
RECURSIVE replacePass(_, _, _, _)
replacePass(existingElements, value, k, st) ==
  IF k < 1 THEN st
  ELSE replacePass(existingElements, value, k - 1,
                   ReplaceStep(existingElements, value, st.toReplace[k], st))

replaceAll(existingElements, value, st) ==
  replacePass(existingElements, value, Len(st.toReplace), st)

\* removeNode(existingElements[i]) in the final loop
UnmatchedStep(existingElements, value, i, st) ==
  [st EXCEPT !.elems = removeNode(@, existingElements[i]),
             !.log = Append(@, EvRemove("removeNode", st.id, existingElements[i].id,
                                        PosOf(st.elems, existingElements[i].id) - 1,
                                        Len(st.elems), FALSE, Element(value, i)))]

\* remove the unmatched elements existingElements[i], .., existingElements[1]
RECURSIVE removeUnmatched(_, _, _, _)
removeUnmatched(existingElements, value, i, st) ==
  IF i < 1 THEN st
  ELSE removeUnmatched(existingElements, value, i - 1,
         IF ~st.matched[i] THEN UnmatchedStep(existingElements, value, i, st) ELSE st)

ArrayStart(existingArray, value) ==
  [id |-> existingArray.id,
   elems |-> existingArray.kids,
   matched |-> [i \in DOMAIN existingArray.kids |-> FALSE],
   toReplace |-> <<>>,
   log |-> <<EvCall("updateArray", existingArray.id, value)>>]

ArrayEnd(st) == [kids |-> st.elems, log |-> st.log]

updateArray(existingArray, value) ==
  Reconciled(existingArray,
    ArrayEnd(removeUnmatched(existingArray.kids, value, Len(existingArray.kids),
               replaceAll(existingArray.kids, value,
                 arrayPass(existingArray.kids, value, 1, ArrayStart(existingArray, value))))))

\* The siblings of a node, as removePreviousWhitespaces sees them: tokens
\* [kind, raw, id] with the raw text as a sequence of characters; id is the
\* handle of a value of the document, NewId for anything else.
Token(kind, raw) == [kind |-> kind, raw |-> raw, id |-> NewId]

\* stringLit.rawValue(): the text of the literal, quotes included; the
\* string Str(v) is v blanks
rawValue(node) == <<"\"">> \o [i \in 1..node.val |-> " "] \o <<"\"">>

ValueToken(node) ==
  [kind |-> node.kind, raw |-> IF node.kind = "string" THEN rawValue(node) ELSE <<"v">>,
   id |-> node.id]

IsBlankChar(c) == c \in {" ", "\n", "\t"}

\* String.prototype.trim()
RECURSIVE trim(_)
trim(raw) ==
  IF raw = <<>> THEN raw
  ELSE IF IsBlankChar(raw[1]) THEN trim(Tail(raw))
  ELSE IF IsBlankChar(raw[Len(raw)]) THEN trim(SubSeq(raw, 1, Len(raw) - 1))
  ELSE raw

isWhitespace(token) == token.kind = "whitespace"
isNewline(token) == token.kind = "newline"

\* previous.asStringLit()?.rawValue().trim() === ""
IsBlankStringLit(token) == token.kind = "string" /\ trim(token.raw) = <<>>

RECURSIVE removePreviousWhitespaces(_)

\* removePreviousWhitespaces without the test of the previous sibling
removePreviousWhitespaces_any(previousSiblings) ==
  IF previousSiblings = <<>> THEN previousSiblings
  ELSE removePreviousWhitespaces(SubSeq(previousSiblings, 1, Len(previousSiblings) - 1))

\* removePreviousWhitespaces(node), on the siblings before the node: what is
\* left of them
removePreviousWhitespaces(previousSiblings) ==
  IF previousSiblings = <<>> THEN previousSiblings
  ELSE IF \/ isWhitespace(previousSiblings[Len(previousSiblings)])
          \/ isNewline(previousSiblings[Len(previousSiblings)])
          \/ IsBlankStringLit(previousSiblings[Len(previousSiblings)])
  THEN removePreviousWhitespaces(SubSeq(previousSiblings, 1, Len(previousSiblings) - 1))
  ELSE previousSiblings

\* what weave hands back: threw is TRUE when asArrayOrThrow or
\* asObjectOrThrow raised, and then nothing is returned
Threw(root) == [threw |-> TRUE, root |-> root, log |-> <<>>, result |-> NoText]
Returned(r) == [threw |-> FALSE, root |-> r.node, log |-> r.log, result |-> toString(r.node)]

\* weave with asArray / asObject in place of the OrThrow accessors
weaveRoot_unchecked(root, modified) ==
  IF modified.kind = "array"
  THEN Returned(updateArray(root, modified))
  ELSE Returned(updateObject(root, modified))

\* weave, from the parsed root on
weaveRoot(root, modified) ==
  IF modified.kind = "array"
  THEN IF root.kind # "array" THEN Threw(root)
       ELSE Returned(updateArray(root, modified))
  ELSE IF root.kind # "object" THEN Threw(root)
       ELSE Returned(updateObject(root, modified))

weave(original, modified) == weaveRoot(parse(original), modified)

\* ------------------------------------------------------------ the inputs
SeqsUpTo(S, n) == UNION {[1..k -> S] : k \in 0..n}

\* key sequences without a repeated key
KeySeqs(K, n) == {ks \in SeqsUpTo(K, n) : \A i, j \in DOMAIN ks : ks[i] = ks[j] => i = j}

Arrays(S, n) == {Arr(es) : es \in SeqsUpTo(S, n)}

Objects(K, S, n) ==
  UNION {{Obj([i \in DOMAIN ks |-> Named(ks[i], vs[i])]) : vs \in [DOMAIN ks -> S]} :
           ks \in KeySeqs(K, n)}

\* the text of a document whose value is v: every slot carries its own
\* trivia, arrays are written on one line
RECURSIVE Doc(_, _)
Doc(v, path) ==
  [tv |-> path, name |-> v.name, kind |-> v.kind, val |-> v.val,
   kids |-> [i \in DOMAIN v.kids |-> Doc(v.kids[i], Append(path, i))], ml |-> FALSE]

\* flat arrays
ArrayElems == {Num(v) : v \in 1..NumVals} \cup {Null}
FlatArrays == Arrays(ArrayElems, MaxLen)

\* objects of primitives and arrays
ObjectKeys == {"a", "b", "constructor"}
ObjectVals == {Num(1), Arr(<<>>), Arr(<<Num(1)>>)}
FlatObjects == Objects(ObjectKeys, ObjectVals, MaxProps)

\* containers in containers
InnerVals == {Num(1), Null}
    \cup Arrays({Num(1)}, MaxInner) \cup Objects({"a"}, {Num(1)}, MaxInner)
Nested == Arrays(InnerVals, MaxOuter) \cup Objects({"a", "b"}, InnerVals, MaxOuter)

\* objects whose properties hold numbers and arrays
MixedVals == {Num(1)} \cup Arrays({Num(1), Null}, MaxElems)
Mixed == Objects({"a", "b"}, MixedVals, MaxOuter)

\* arrays whose only element is replaced, and what the library may leave
\* between the old element and the node inserted behind it
TriviaElems == {Num(1), Str(1)}
TriviaArrays == Arrays(TriviaElems, MaxElems)
GapTokens ==
  {Token("whitespace", <<" ">>), Token("newline", <<"\n">>),
   Token("comma", <<",">>), Token("comment", <<"/", "/">>)}
Gaps == SeqsUpTo(GapTokens, MaxGap)

\* the siblings before the inserted node: the indentation, the old element
\* and the gap
Layout(old, gap) == <<Token("whitespace", <<" ">>), ValueToken(old)>> \o gap

\* arrays in the values of properties and elements
DeepInner == {Num(1), Arr(<<Num(1)>>)}
DeepVals == {Num(1)} \cup Arrays(DeepInner, MaxInner) \cup Objects({"a"}, DeepInner, MaxInner)
Deep == Arrays(DeepVals, MaxDeep) \cup Objects({"a", "b"}, DeepVals, MaxDeep)

\* nodes and values of every kind, for shouldPreserveComments
Bool(v) == Prim("boolean", v)
EquivVals ==
  {Num(v) : v \in 1..NumVals} \cup {Str(v) : v \in 1..NumVals}
    \cup {Bool(0), Bool(1), Null}
    \cup Arrays({Num(1)}, MaxInner) \cup Objects({"a"}, {Num(1)}, MaxInner)

\* ------------------------------------------------------------- the machine
VARIABLES
  original,   \* the text of the file before the first call
  modified,   \* the value the caller weaves into the file
  text,       \* the text of the file now
  before,     \* the text of the file before the latest call
  calls,      \* calls of weave made
  status,     \* of the latest call: "idle", "returned", "threw"
  result,     \* what the latest call returned (NoText: nothing)
  root,       \* the tree of the latest call when it ended
  log,        \* the edits of the latest call, in order
  gap,        \* what the library leaves between an element and the node
              \* inserted behind it
  siblings    \* the walks of removePreviousWhitespaces in the latest call:
              \* the siblings before the inserted node, before and after

vars == <<original, modified, text, before, calls, status, result, root, log, gap, siblings>>

InitGap(docs, values, gaps) ==
  /\ original \in {Doc(v, <<>>) : v \in docs}
  /\ gap \in gaps
  /\ modified \in values
  /\ text = original
  /\ before = original
  /\ calls = 0
  /\ status = "idle"
  /\ result = NoText
  /\ root = NoRoot
  /\ log = <<>>
  /\ siblings = {}

InitWith(docs, values) == InitGap(docs, values, {<<>>})

\* removePreviousWhitespaces(inserted) for every replacement the log has in
\* an array of one element
Walk(at, old) ==
  [at |-> at,
   was |-> Layout(old, gap),
   now |-> removePreviousWhitespaces(Layout(old, gap))]

Walks(tree, edits) ==
  UNION {{Walk(edits[e].at, o.kids[1]) : o \in Find(tree, edits[e].at)} :
           e \in {f \in DOMAIN edits : edits[f].op = "removePreviousWhitespaces"}}

\* result = weave(text, modified); the caller writes the result to the file
Called(r) ==
  /\ status' = IF r.threw THEN "threw" ELSE "returned"
  /\ result' = r.result
  /\ text' = IF r.threw THEN text ELSE r.result
  /\ root' = r.root
  /\ log' = r.log
  /\ siblings' = Walks(parse(text), r.log)

Weave ==
  /\ calls < MaxCalls
  /\ Called(weave(text, modified))
  /\ before' = text
  /\ calls' = calls + 1
  /\ UNCHANGED <<original, modified, gap>>

Next == Weave

Init == InitWith(Nested \cup {Num(1)}, Nested)
Spec == Init /\ [][Next]_vars

InitArray == InitWith(FlatArrays \cup {Obj(<<>>)}, FlatArrays \cup {Obj(<<>>)})
SpecArray == InitArray /\ [][Next]_vars

InitObject == InitWith(FlatObjects \cup {Arr(<<>>)}, FlatObjects \cup {Arr(<<>>)})
SpecObject == InitObject /\ [][Next]_vars

InitMixed == InitWith(Mixed \cup {Arr(<<>>)}, Mixed \cup {Arr(<<>>)})
SpecMixed == InitMixed /\ [][Next]_vars

InitDeep == InitWith(Deep, Deep)
SpecDeep == InitDeep /\ [][Next]_vars

\* a document and its own value
InitRoundTrip ==
  \E v \in Nested \cup FlatArrays \cup FlatObjects \cup Mixed
           \cup Arrays(Nested, 1) \cup Objects({"a"}, Nested, 1) :
    InitWith({v}, {v})
SpecRoundTrip == InitRoundTrip /\ [][Next]_vars

\* shouldPreserveComments(node, newValue) on the root node of the text
Compare ==
  /\ calls = 0
  /\ status' = IF shouldPreserveComments(parse(text), modified)
                THEN "equivalent" ELSE "different"
  /\ calls' = calls + 1
  /\ UNCHANGED <<original, modified, text, before, result, root, log, gap, siblings>>

NextEquiv == Compare

InitEquiv == InitWith(EquivVals, EquivVals)
SpecEquiv == InitEquiv /\ [][NextEquiv]_vars

InitTrivia == InitGap(TriviaArrays, TriviaArrays, Gaps)
SpecTrivia == InitTrivia /\ [][Next]_vars

TypeOK ==
  /\ calls \in 0..MaxCalls
  /\ status \in {"idle", "returned", "threw", "equivalent", "different"}

\* ----------------------------------------------------------------- claims
KeySeq(n) == [i \in DOMAIN n.kids |-> n.kids[i].name]

Ops == {log[k].op : k \in DOMAIN log}

FirstReturned == calls = 1 /\ status = "returned"

\* C1: the document weave returns decodes to a plain value equal to the
\* target: the same keys with equal values in every object, the same
\* elements in every array.
C1_DecodesToTarget == FirstReturned => ValEq(Decode(result), modified)

\* C2: after updateObject returns, the property names of the object, in
\* document order, are the target's keys in the target's iteration order.
C2_KeyOrderIsTargetOrder ==
  FirstReturned =>
    \A k \in DOMAIN log : log[k].op = "updateObject" =>
      \A r \in Find(root, log[k].at) : KeySeq(r) = KeySeq(log[k].value)

\* C3: after updateArray returns, the array has as many elements as the
\* target and the element at every index decodes to the target's element.
C3_ElementsAreTarget ==
  FirstReturned =>
    \A k \in DOMAIN log : log[k].op = "updateArray" =>
      \A r \in Find(root, log[k].at) :
        /\ Len(r.kids) = Len(log[k].value.kids)
        /\ \A i \in DOMAIN r.kids : ValEq(Decode(r.kids[i]), log[k].value.kids[i])

\* C4: weaving a document's own value into it leaves the tree untouched:
\* nothing is inserted, appended, removed, replaced or forced multiline,
\* every primitive written is the one already there, and the text returned
\* is the document.
C4_RoundTripNoOp ==
  (calls = 1 /\ modified = Decode(original)) =>
    /\ status = "returned"
    /\ root = parse(original)
    /\ result = original
    /\ \A k \in DOMAIN log :
         \/ log[k].op \in {"updateObject", "updateArray", "match"}
         \/ log[k].op = "setValue" /\ log[k].flag

C4_Witness ==
  /\ FirstReturned
  /\ modified = Decode(original)
  /\ {"setValue", "match", "updateObject", "updateArray"} \subseteq Ops

\* C5: weaving the same target into the result of weave changes nothing.
C5_Idempotent == (calls = 2 /\ status = "returned") => result = before

\* C6: when the target is an array and the root is not, or the target is an
\* object and the root is not, weave raises before any reconciler runs:
\* no edit is applied to the tree and no text is returned.
ShapeMismatch ==
  \/ modified.kind = "array" /\ before.kind # "array"
  \/ modified.kind # "array" /\ before.kind # "object"

C6_ShapeMismatchFailsFast ==
  (calls >= 1 /\ ShapeMismatch) =>
    /\ status = "threw"
    /\ result = NoText
    /\ log = <<>>
    /\ root = parse(before)
    /\ text = before

C6_Witness ==
  /\ calls = 1 /\ status = "threw"
  /\ modified.kind = "array" /\ Len(modified.kids) > 0
  /\ original.kind = "object" /\ Len(original.kids) > 0


\* C7: when the target is the original object with one key k replaced by a
\* new key k' at the same position, the output has k' at k's index, k is
\* gone, the number of properties is unchanged and no other property is
\* removed or inserted.
Tree0 == parse(original)

RenamedAt(k) ==
  /\ original.kind = "object" /\ modified.kind = "object"
  /\ Len(modified.kids) = Len(original.kids)
  /\ k \in DOMAIN original.kids
  /\ modified.kids[k].name \notin Names(original.kids)
  /\ [modified.kids[k] EXCEPT !.name = original.kids[k].name] = Decode(original.kids[k])
  /\ \A i \in DOMAIN original.kids \ {k} : modified.kids[i] = Decode(original.kids[i])

C7_RenameInPlace ==
  \A k \in DOMAIN original.kids :
    (FirstReturned /\ RenamedAt(k)) =>
      /\ KeySeq(root) = KeySeq(modified)
      /\ \A i \in DOMAIN original.kids \ {k} : root.kids[i].id = Tree0.kids[i].id
      /\ Cardinality({e \in DOMAIN log : log[e].op \in {"insert", "remove"}}) = 2

\* C8: when the target swaps two adjacent elements of an array of distinct
\* primitives, the output array equals the target, the two swapped elements
\* are the original nodes and the other elements are untouched.
SwappedAt(p) ==
  /\ original.kind = "array" /\ modified.kind = "array"
  /\ Len(modified.kids) = Len(original.kids)
  /\ p \in DOMAIN original.kids /\ p + 1 \in DOMAIN original.kids
  /\ \A i, j \in DOMAIN original.kids :
       /\ ~IsContainerKind(original.kids[i].kind)
       /\ Decode(original.kids[i]) = Decode(original.kids[j]) => i = j
  /\ modified.kids[p] = Decode(original.kids[p + 1])
  /\ modified.kids[p + 1] = Decode(original.kids[p])
  /\ \A i \in DOMAIN original.kids \ {p, p + 1} : modified.kids[i] = Decode(original.kids[i])

C8_SwapKeepsNodes ==
  \A p \in DOMAIN original.kids :
    (FirstReturned /\ SwappedAt(p)) =>
      /\ Decode(result) = modified
      /\ Len(root.kids) = Len(original.kids)
      /\ root.kids[p].id = Tree0.kids[p + 1].id
      /\ root.kids[p + 1].id = Tree0.kids[p].id
      /\ \A i \in DOMAIN original.kids \ {p, p + 1} : root.kids[i] = Tree0.kids[i]

\* C9: a property whose key is in both the object and the value woven into
\* it is never removed, and the surviving properties keep their relative
\* order; an array element equivalent to the value at its own index is never
\* removed or replaced.
Last(path) == path[Len(path)]

\* equivalent: primitives of one kind with equal values, containers of one kind
Equivalent(node, v) ==
  node.kind = v.kind /\ (IsContainerKind(v.kind) \/ node.val = v.val)

C10_NewArrayMultiline ==
  (calls >= 1 /\ status = "returned") =>
    \A k \in DOMAIN log : log[k].op = "updateObject" =>
      \A o \in Find(parse(before), log[k].at) : \A r \in Find(root, log[k].at) :
        \A i \in DOMAIN log[k].value.kids :
          log[k].value.kids[i].kind = "array" =>
            /\ \E j \in DOMAIN r.kids : r.kids[j].name = log[k].value.kids[i].name
            /\ \A j \in DOMAIN r.kids :
                 r.kids[j].name = log[k].value.kids[i].name =>
                   /\ r.kids[j].kind = "array"
                   /\ IF \E q \in DOMAIN o.kids :
                           o.kids[q].name = r.kids[j].name /\ o.kids[q].kind = "array"
                      THEN \E q \in DOMAIN o.kids :
                             /\ o.kids[q].id = r.kids[j].id
                             /\ o.kids[q].ml = r.kids[j].ml
                      ELSE r.kids[j].ml = (Len(log[k].value.kids[i].kids) > 0)

\* a call that inserted a property with a non-empty array and reconciled a
\* non-empty array of the document, which it did not force
C10_Witness ==
  /\ FirstReturned
  /\ \E k \in DOMAIN log : log[k].op = "insert"
  /\ \E k \in DOMAIN log : log[k].op = "ensureMultiline" /\ log[k].id = NewId
  /\ \E k \in DOMAIN log : log[k].op = "updateArray" /\
       \E r \in Find(root, log[k].at) : Len(r.kids) > 0 /\ ~r.ml

\* C11: after updateObject returns, the property names of the object are
\* the target's keys, each once: a snapshot property whose name the target
\* lacks was removed exactly once (by the final loop or by a rename), a
\* property whose name the target has was never removed.
Removals(id) == {e \in DOMAIN log : log[e].op = "remove" /\ log[e].id = id}

C11_NamesAreTargetKeys ==
  FirstReturned =>
    \A k \in DOMAIN log : log[k].op = "updateObject" =>
      \A o \in Find(Tree0, log[k].at) : \A r \in Find(root, log[k].at) :
        /\ Names(r.kids) = Names(log[k].value.kids)
        /\ \A i, j \in DOMAIN r.kids : r.kids[i].name = r.kids[j].name => i = j
        /\ \A i \in DOMAIN o.kids :
             Cardinality(Removals(o.kids[i].id)) =
               IF o.kids[i].name \in Names(log[k].value.kids) THEN 0 ELSE 1

\* C12: a target key the snapshot lacks is a rename exactly when the
\* property now at insertIndex is a snapshot property still in
\* propsToRemove; otherwise the key is inserted at insertIndex.  Neither
\* names nor values take part, and a property is reclaimed at most once.
\* The pass is replayed from the log: `props` are the handles of the
\* properties in document order, `cursor` is insertIndex.
IsChildOf(id, at) == Len(id) = Len(at) + 1 /\ SubSeq(id, 1, Len(at)) = at /\ id # NewId

IdsOf(kids) == [i \in DOMAIN kids |-> kids[i].id]

IdPos(ids, id) ==
  IF \E i \in DOMAIN ids : ids[i] = id THEN CHOOSE i \in DOMAIN ids : ids[i] = id ELSE 0

\* the snapshot property with handle id is in propsToRemove as first computed
Flagged(o, newObj, id) ==
  \E i \in DOMAIN o.kids : o.kids[i].id = id /\ ~KeyIn(o.kids[i].name, newObj)

\* the property at insertIndex can be reclaimed
Reclaimable(o, newObj, rp) ==
  /\ rp.cursor < Len(rp.props)
  /\ Flagged(o, newObj, rp.props[rp.cursor + 1])

ReplayEvent(o, newObj, rp, e) ==
  IF e.op \in {"setValue", "updateObject", "updateArray"} /\ IsChildOf(e.id, o.id)
  THEN [rp EXCEPT !.cursor = IdPos(rp.props, e.id)]
  ELSE IF e.op = "remove" /\ e.at = o.id /\ e.flag
  THEN [rp EXCEPT !.ok = /\ @
                         /\ Reclaimable(o, newObj, rp)
                         /\ rp.props[rp.cursor + 1] = e.id
                         /\ e.id \notin rp.reclaimed
                         /\ ~rp.pending,
                  !.props = RemoveAt(@, IdPos(@, e.id)),
                  !.reclaimed = @ \cup {e.id},
                  !.pending = TRUE]
  ELSE IF e.op = "insert" /\ e.at = o.id /\ e.flag
  THEN [rp EXCEPT !.ok = @ /\ rp.pending /\ e.idx = rp.cursor,
                  !.props = InsertAt(@, e.idx, NewId),
                  !.cursor = e.idx + 1,
                  !.pending = FALSE]
  ELSE IF e.op = "insert" /\ e.at = o.id
  THEN [rp EXCEPT !.ok = @ /\ ~rp.pending /\ e.idx = rp.cursor /\ ~Reclaimable(o, newObj, rp),
                  !.props = InsertAt(@, e.idx, NewId),
                  !.cursor = e.idx + 1]
  ELSE IF e.op = "remove" /\ e.at = o.id
  THEN [rp EXCEPT !.ok = @ /\ ~rp.pending, !.props = RemoveAt(@, IdPos(@, e.id))]
  ELSE rp

RECURSIVE Replay(_, _, _, _)
Replay(o, newObj, k, rp) ==
  IF k > Len(log) THEN rp
  ELSE Replay(o, newObj, k + 1, ReplayEvent(o, newObj, rp, log[k]))

ReplayStart(o) ==
  [props |-> IdsOf(o.kids), cursor |-> 0, reclaimed |-> {}, pending |-> FALSE, ok |-> TRUE]

ReplayGood(rp, r) == rp.ok /\ ~rp.pending /\ rp.props = IdsOf(r.kids)

C12_RenameIffAtCursor ==
  FirstReturned =>
    \A k \in DOMAIN log : log[k].op = "updateObject" =>
      \A o \in Find(Tree0, log[k].at) : \A r \in Find(root, log[k].at) :
        ReplayGood(Replay(o, log[k].value, k + 1, ReplayStart(o)), r)

\* a call that reclaimed a property for one new key and inserted another
\* new key behind it
C12_Witness ==
  /\ FirstReturned
  /\ \E k \in DOMAIN log : log[k].op = "remove" /\ log[k].flag
  /\ \E k \in DOMAIN log : log[k].op = "insert" /\ ~log[k].flag

\* C13: in updateArray every index of the target is realised once: by an
\* element matched in place or by look-ahead, by an appended element, or by
\* a replacement scheduled for the index, also when the element at the index
\* was claimed by an earlier look-ahead match.
Realised(at, i) ==
  {e \in DOMAIN log : /\ log[e].at = at
                      /\ log[e].op \in {"match", "append", "schedule"}
                      /\ log[e].idx = i - 1}

C13_EveryIndexRealised ==
  FirstReturned =>
    \A k \in DOMAIN log : log[k].op = "updateArray" =>
      \A i \in DOMAIN log[k].value.kids : Cardinality(Realised(log[k].at, i)) = 1

\* C15: an element at position p is matched only to a target index i with
\* i <= p <= i + 2, a look-ahead match takes an element not matched before,
\* and an element is marked matched for at most one target index.
Marks(at, p) ==
  {e \in DOMAIN log : /\ log[e].at = at
                      /\ log[e].op \in {"match", "schedule"}
                      /\ log[e].n = p - 1}

C15_LookAheadWindow ==
  FirstReturned =>
    \A e \in DOMAIN log :
      /\ log[e].op = "match" =>
           /\ log[e].n - log[e].idx \in 0..2
           /\ log[e].flag = (log[e].n > log[e].idx)
           /\ Last(log[e].id) = log[e].n + 1
           /\ \A f \in DOMAIN log : f < e => f \notin Marks(log[e].at, log[e].n + 1)
      /\ log[e].op = "updateArray" =>
           \A o \in Find(Tree0, log[e].at) : \A p \in DOMAIN o.kids :
             Cardinality(Marks(log[e].at, p)) <= 1

\* a call that matched one element two positions ahead and another in place
C15_Witness ==
  /\ FirstReturned
  /\ \E e \in DOMAIN log : log[e].op = "match" /\ log[e].n = log[e].idx + 2
  /\ \E e \in DOMAIN log : log[e].op = "match" /\ ~log[e].flag
  /\ \E e \in DOMAIN log : log[e].op = "skip"

\* C16: when the target is an array of primitives with one element deleted,
\* nothing is scheduled or appended, one element is removed, the others keep
\* their nodes and the result decodes to the target.
DeletedAt(p) ==
  /\ original.kind = "array" /\ modified.kind = "array"
  /\ p \in DOMAIN original.kids
  /\ \A i \in DOMAIN original.kids : ~IsContainerKind(original.kids[i].kind)
  /\ modified.kids = RemoveAt(Decode(original).kids, p)

C16_SingleDeletion ==
  \A p \in DOMAIN original.kids :
    (FirstReturned /\ DeletedAt(p)) =>
      /\ Ops \cap {"schedule", "append", "insertElement"} = {}
      /\ Cardinality({e \in DOMAIN log : log[e].op = "removeNode"}) = 1
      /\ \E q \in DOMAIN Tree0.kids : root.kids = RemoveAt(Tree0.kids, q)
      /\ Decode(result) = modified

\* the first of MaxLen elements deleted: the others are found by look-ahead
C16_Witness ==
  /\ FirstReturned
  /\ DeletedAt(1)
  /\ Len(original.kids) = MaxLen
  /\ \E e \in DOMAIN log : log[e].op = "match" /\ log[e].flag
  /\ \E e \in DOMAIN log : log[e].op = "removeNode"

\* C17: when the target is an array of distinct primitives with one new
\* element inserted, every original element keeps its node: none is
\* scheduled for replacement or removed, only the new value is built.
InsertedAt(p) ==
  /\ original.kind = "array" /\ modified.kind = "array"
  /\ p \in DOMAIN modified.kids
  /\ \A i, j \in DOMAIN modified.kids :
       /\ ~IsContainerKind(modified.kids[i].kind)
       /\ modified.kids[i] = modified.kids[j] => i = j
  /\ Decode(original).kids = RemoveAt(modified.kids, p)

C17_SingleInsertion ==
  \A p \in DOMAIN modified.kids :
    (FirstReturned /\ InsertedAt(p) /\ p <= 2) =>
      /\ Ops \cap {"schedule", "removeNode"} = {}
      /\ \A i \in DOMAIN Tree0.kids : \E j \in DOMAIN root.kids : root.kids[j] = Tree0.kids[i]
      /\ Cardinality({j \in DOMAIN root.kids : root.kids[j].id = NewId}) = 1

\* C14: an object node is equivalent to an object and an array node to an
\* array, whatever they hold; an object node is never equivalent to an
\* array, null or a primitive, nor an array node to an object; a primitive
\* node is equivalent to a primitive of its kind with an equal value only.
C14_EquivalenceByKind ==
  status \in {"equivalent", "different"} =>
    (status = "equivalent") = Equivalent(parse(original), modified)

\* C18: every non-empty array node that weave brings into the document is
\* multiline: the value of a new, renamed or rewritten property, an array
\* appended to or replacing an element of an array, and an array inside a
\* newly built object or array.
RECURSIVE Nodes(_)
Nodes(n) == {n} \cup UNION {Nodes(n.kids[i]) : i \in DOMAIN n.kids}

\* the node was built during the call
Introduced(n) ==
  \/ n.id = NewId
  \/ \E e \in DOMAIN log : log[e].op = "setValue" /\ log[e].id = n.id /\ ~log[e].flag

C18_EveryNewArrayMultiline ==
  FirstReturned =>
    \A n \in Nodes(root) :
      (n.kind = "array" /\ Len(n.kids) > 0 /\ Introduced(n)) => n.ml

\* C18 as amended: a new array is multiline exactly when it is non-empty
\* and the direct value of a property of an object that updateObject
\* reconciled; arrays appended to or replacing an element of an array, and
\* arrays inside a newly built value, are left as built.
ReconciledObject(x) ==
  \E e \in DOMAIN log : log[e].op = "updateObject" /\ log[e].at = x.id

C18_PropertyArraysMultiline ==
  FirstReturned =>
    \A x \in Nodes(root) : \A i \in DOMAIN x.kids :
      (x.kids[i].kind = "array" /\ Introduced(x.kids[i])) =>
        x.kids[i].ml = (Len(x.kids[i].kids) > 0 /\ ReconciledObject(x))

\* a call that gave a property a new array holding another array
C18_Witness ==
  /\ FirstReturned
  /\ \E e \in DOMAIN log : log[e].op = "ensureMultiline"
  /\ \E i \in DOMAIN root.kids :
       /\ root.kids[i].kind = "array" /\ root.kids[i].ml
       /\ \E j \in DOMAIN root.kids[i].kids :
            /\ root.kids[i].kids[j].kind = "array"
            /\ Len(root.kids[i].kids[j].kids) > 0
            /\ ~root.kids[i].kids[j].ml

\* C19: removePreviousWhitespaces runs only in an array that held one
\* element, between inserting the replacement and removing that element; it
\* removes only whitespace, newline and blank-text siblings right before
\* the inserted node, stops at the first other sibling, and removes no
\* value of the document and no comment.
Removable(token) ==
  token.kind \in {"whitespace", "newline"} \/ (token.kind = "string" /\ trim(token.raw) = <<>>)

C19_TriviaCleanup ==
  /\ \A e \in DOMAIN log : log[e].op = "removePreviousWhitespaces" =>
       \A o \in Find(parse(before), log[e].at) :
         /\ Len(o.kids) = 1
         /\ log[e - 1].op = "insertElement" /\ log[e - 1].at = log[e].at
         /\ log[e + 1].op = "removeNode" /\ log[e + 1].flag
         /\ log[e + 1].id = o.kids[1].id
  /\ \A w \in siblings :
       /\ Len(w.now) <= Len(w.was)
       /\ w.now = SubSeq(w.was, 1, Len(w.now))
       /\ \A i \in DOMAIN w.was :
            i > Len(w.now) =>
              /\ Removable(w.was[i])
              /\ w.was[i].id = NewId
              /\ w.was[i].kind # "comment"
       /\ w.now # <<>> => ~Removable(w.now[Len(w.now)])
       /\ \E i \in DOMAIN w.now : w.now[i].id # NewId

\* the only element, a blank string, was replaced; the walk removed a
\* newline and a blank and stopped at a comment
C19_Witness ==
  /\ FirstReturned
  /\ \E w \in siblings :
       /\ Len(w.was) = Len(w.now) + 2
       /\ w.now[Len(w.now)].kind = "comment"
       /\ \E i \in DOMAIN w.now : w.now[i].kind = "string"

\* C20: when the keys the object and the target share come in the same
\* relative order in both, the properties of the object after updateObject
\* are the target's keys in the target's order, whatever was added, removed
\* or renamed: every added key sits right behind the target key before it.
KeyPos(kids, name) == CHOOSE i \in DOMAIN kids : kids[i].name = name

CommonOrderKept(o, newObj) ==
  \A i, j \in DOMAIN o.kids :
    (i < j /\ {o.kids[i].name, o.kids[j].name} \subseteq Names(newObj.kids)) =>
      KeyPos(newObj.kids, o.kids[i].name) < KeyPos(newObj.kids, o.kids[j].name)

C20_ConditionalOrderFidelity ==
  FirstReturned =>
    \A k \in DOMAIN log : log[k].op = "updateObject" =>
      \A o \in Find(Tree0, log[k].at) : \A r \in Find(root, log[k].at) :
        CommonOrderKept(o, log[k].value) => KeySeq(r) = KeySeq(log[k].value)

\* C21: no node is touched once it is removed: a property or element is
\* removed at most once and is in the tree when it is removed; after its
\* removal no value update, recursion, match or removal names it or a node
\* under it; every property the pass asks for its propertyIndex (the one
\* just updated, and the candidates of the rename search) is in the tree.
IsPrefix(p, q) == Len(p) <= Len(q) /\ SubSeq(q, 1, Len(p)) = p

IsRemoval(e) == e.op \in {"remove", "removeNode"}

Alive(rp) == {rp.props[i] : i \in DOMAIN rp.props}

\* the snapshot properties the rename search asks for their propertyIndex
Queried(o, newObj, rp) ==
  {o.kids[i].id : i \in {j \in DOMAIN o.kids :
     Flagged(o, newObj, o.kids[j].id) /\ o.kids[j].id \notin rp.reclaimed}}

QueryLive(o, newObj, rp, e) ==
  /\ (e.at = o.id /\ ((e.op = "remove" /\ e.flag) \/ (e.op = "insert" /\ ~e.flag))) =>
       Queried(o, newObj, rp) \subseteq Alive(rp)
  /\ (e.op \in {"setValue", "updateObject", "updateArray"} /\ IsChildOf(e.id, o.id)) =>
       e.id \in Alive(rp)

RECURSIVE QueriesLive(_, _, _, _)
QueriesLive(o, newObj, k, rp) ==
  IF k > Len(log) THEN TRUE
  ELSE /\ QueryLive(o, newObj, rp, log[k])
       /\ QueriesLive(o, newObj, k + 1, ReplayEvent(o, newObj, rp, log[k]))

C21_NoTouchAfterRemoval ==
  FirstReturned =>
    /\ \A e \in DOMAIN log : IsRemoval(log[e]) =>
         /\ log[e].id # NewId
         /\ log[e].idx >= 0
         /\ \A f \in DOMAIN log :
              f > e => /\ ~IsPrefix(log[e].id, log[f].id)
                       /\ ~IsPrefix(log[e].id, log[f].at)
    /\ \A k \in DOMAIN log : log[k].op = "updateObject" =>
         \A o \in Find(Tree0, log[k].at) :
           QueriesLive(o, log[k].value, k + 1, ReplayStart(o))

\* a call that replaced one element of an array, removed an unmatched one
\* and removed a property
C21_Witness ==
  /\ FirstReturned
  /\ \E e \in DOMAIN log : log[e].op = "removeNode" /\ log[e].flag
  /\ \E e \in DOMAIN log : log[e].op = "removeNode" /\ ~log[e].flag
  /\ \E e \in DOMAIN log : log[e].op = "remove"

\* C22: every insert uses a valid index: a property is inserted at an
\* index in 0..number of properties the object then has, a replacement at
\* an index in 1..number of elements the array then has.
C22_InsertPositionsValid ==
  (calls >= 1 /\ status = "returned") =>
    \A e \in DOMAIN log :
      /\ log[e].op = "insert" => log[e].idx \in 0..log[e].n
      /\ log[e].op = "insertElement" => log[e].idx \in 1..log[e].n

\* a call that replaced the element of an array and inserted a property
\* behind the last one
C22_Witness ==
  /\ FirstReturned
  /\ \E e \in DOMAIN log : log[e].op = "insert" /\ log[e].idx = log[e].n /\ log[e].n > 0
  /\ \E e \in DOMAIN log : log[e].op = "insertElement" /\ log[e].idx = log[e].n

====
